---- MODULE Spec2Model ----
(***************************************************************************)
(* The retrieval-augmented narrative pipeline and the reflection updater   *)
(* of the Hometown Atlas / UrbanScribe application:                        *)
(*   app/services.py   (Streamlit revision, synchronous)                   *)
(*   app/service.py    (FastAPI revision, asynchronous)                    *)
(*   app/knowledge_base.py, app/model.py                                   *)
(*                                                                         *)
(* A Python string is a sequence of symbols.  A symbol is one character    *)
(* or one word that the code treats as a unit: the JSON punctuation, the   *)
(* quote, the blank, the Markdown code fence and the word json that may    *)
(* follow it, the field names, and a few letters.                          *)
(***************************************************************************)
EXTENDS Integers, Sequences, FiniteSets, TLC

Q == "\""
WS == " "
\* the Markdown code fence, three backticks, as one symbol
FENCE == "<fence>"

(***************************************************************************)
(* str.strip() and str.replace(pat, empty)                                 *)
(***************************************************************************)
RECURSIVE LStrip(_)
LStrip(s) == IF s # <<>> /\ Head(s) = WS THEN LStrip(Tail(s)) ELSE s

RECURSIVE RStrip(_)
RStrip(s) ==
    IF s # <<>> /\ s[Len(s)] = WS THEN RStrip(SubSeq(s, 1, Len(s) - 1)) ELSE s

Strip(s) == RStrip(LStrip(s))

StartsWith(s, pat) == Len(s) >= Len(pat) /\ SubSeq(s, 1, Len(pat)) = pat

\* s.replace(pat, empty): the non-overlapping occurrences of pat, left to right
RECURSIVE Remove(_, _)
Remove(s, pat) ==
    IF s = <<>> THEN <<>>
    ELSE IF StartsWith(s, pat) THEN Remove(SubSeq(s, Len(pat) + 1, Len(s)), pat)
    ELSE <<Head(s)>> \o Remove(Tail(s), pat)

(***************************************************************************)
(* JSON values.  One record shape for every value, so that any two values  *)
(* can be compared: t is the type, s the symbols of a string, kids the     *)
(* elements of an array or the values of an object, keys the object        *)
(* keys (kids[i] is the value of keys[i]).                                 *)
(***************************************************************************)
JStr(s)      == [t |-> "str",  s |-> s,    keys |-> <<>>, kids |-> <<>>]
JNum         == [t |-> "num",  s |-> <<>>, keys |-> <<>>, kids |-> <<>>]
JNull        == [t |-> "null", s |-> <<>>, keys |-> <<>>, kids |-> <<>>]
JArr(vs)     == [t |-> "arr",  s |-> <<>>, keys |-> <<>>, kids |-> vs]
JObj(ks, vs) == [t |-> "obj",  s |-> <<>>, keys |-> ks,   kids |-> vs]

HasKey(o, k) == \E i \in 1..Len(o.keys) : o.keys[i] = k
GetKey(o, k) == o.kids[CHOOSE i \in 1..Len(o.keys) : o.keys[i] = k]

\* dict[k] = v: a repeated key keeps its place and takes the later value
PutKey(ks, vs, k, v) ==
    IF \E i \in 1..Len(ks) : ks[i] = k
    THEN [keys |-> ks,
          kids |-> [i \in 1..Len(vs) |-> IF ks[i] = k THEN v ELSE vs[i]]]
    ELSE [keys |-> Append(ks, k), kids |-> Append(vs, v)]

(***************************************************************************)
(* json.loads: a recursive-descent parser over the symbols.  Each parser   *)
(* returns ok, the value and the position after it.                        *)
(***************************************************************************)
ParseFail == [ok |-> FALSE, val |-> JNull, pos |-> 0]
ParseOk(v, p) == [ok |-> TRUE, val |-> v, pos |-> p]

At(s, i) == IF i >= 1 /\ i <= Len(s) THEN s[i] ELSE "<eof>"

RECURSIVE SkipWs(_, _)
SkipWs(s, i) == IF At(s, i) = WS THEN SkipWs(s, i + 1) ELSE i

RECURSIVE FindQuote(_, _)
FindQuote(s, i) ==
    IF i > Len(s) THEN 0 ELSE IF s[i] = Q THEN i ELSE FindQuote(s, i + 1)

\* s[i] is the opening quote
ParseString(s, i) ==
    LET j == FindQuote(s, i + 1)
    IN  IF j = 0 THEN ParseFail ELSE ParseOk(JStr(SubSeq(s, i + 1, j - 1)), j + 1)

RECURSIVE ParseValue(_, _)
RECURSIVE ParseElems(_, _, _)
RECURSIVE ParseMembers(_, _, _, _)

ParseValue(s, i0) ==
    LET i == SkipWs(s, i0)
        c == At(s, i)
    IN  CASE c = "{" ->
               IF At(s, SkipWs(s, i + 1)) = "}"
               THEN ParseOk(JObj(<<>>, <<>>), SkipWs(s, i + 1) + 1)
               ELSE ParseMembers(s, i + 1, <<>>, <<>>)
          [] c = "[" ->
               IF At(s, SkipWs(s, i + 1)) = "]"
               THEN ParseOk(JArr(<<>>), SkipWs(s, i + 1) + 1)
               ELSE ParseElems(s, i + 1, <<>>)
          [] c = Q -> ParseString(s, i)
          [] c = "1" -> ParseOk(JNum, i + 1)
          [] c = "null" -> ParseOk(JNull, i + 1)
          [] OTHER -> ParseFail

\* one element, then "," and more elements, or "]"
ParseElems(s, i0, acc) ==
    LET r == ParseValue(s, i0)
    IN  IF ~r.ok THEN ParseFail
        ELSE LET j == SkipWs(s, r.pos)
             IN  CASE At(s, j) = "," -> ParseElems(s, j + 1, Append(acc, r.val))
                   [] At(s, j) = "]" -> ParseOk(JArr(Append(acc, r.val)), j + 1)
                   [] OTHER -> ParseFail

\* one "key": value member, then "," and more members, or "}"
ParseMembers(s, i0, ks, vs) ==
    LET i == SkipWs(s, i0)
    IN  IF At(s, i) # Q THEN ParseFail
        ELSE LET k == ParseString(s, i)
             IN  IF ~k.ok \/ At(s, SkipWs(s, k.pos)) # ":" THEN ParseFail
                 ELSE LET r == ParseValue(s, SkipWs(s, k.pos) + 1)
                      IN  IF ~r.ok THEN ParseFail
                          ELSE LET j == SkipWs(s, r.pos)
                                   m == PutKey(ks, vs, k.val.s, r.val)
                               IN  CASE At(s, j) = "," ->
                                          ParseMembers(s, j + 1, m.keys, m.kids)
                                     [] At(s, j) = "}" ->
                                          ParseOk(JObj(m.keys, m.kids), j + 1)
                                     [] OTHER -> ParseFail

\* json.loads(s): one value and nothing but blanks after it, or JSONDecodeError
json_loads(s) ==
    LET r == ParseValue(s, 1)
    IN  IF r.ok /\ SkipWs(s, r.pos) > Len(s) THEN r ELSE ParseFail

(***************************************************************************)
(* json.dumps, used to write down the possible answers of the oracle.      *)
(***************************************************************************)
RECURSIVE Dump(_)
RECURSIVE DumpElems(_, _)
RECURSIVE DumpMembers(_, _, _)

Dump(v) ==
    CASE v.t = "str"  -> <<Q>> \o v.s \o <<Q>>
      [] v.t = "num"  -> <<"1">>
      [] v.t = "null" -> <<"null">>
      [] v.t = "arr"  -> <<"[">> \o DumpElems(v.kids, 1) \o <<"]">>
      [] v.t = "obj"  -> <<"{">> \o DumpMembers(v.keys, v.kids, 1) \o <<"}">>

DumpElems(vs, i) ==
    IF i > Len(vs) THEN <<>>
    ELSE Dump(vs[i]) \o (IF i < Len(vs) THEN <<",", WS>> ELSE <<>>)
         \o DumpElems(vs, i + 1)

DumpMembers(ks, vs, i) ==
    IF i > Len(ks) THEN <<>>
    ELSE <<Q>> \o ks[i] \o <<Q, ":", WS>> \o Dump(vs[i])
         \o (IF i < Len(ks) THEN <<",", WS>> ELSE <<>>)
         \o DumpMembers(ks, vs, i + 1)

(***************************************************************************)
(* app/model.py: the two pydantic models built from the oracle's text.     *)
(***************************************************************************)
LIKES == <<"likes">>
DISLIKES == <<"dislikes">>

IsStrList(v) == v.t = "arr" /\ \A i \in 1..Len(v.kids) : v.kids[i].t = "str"
StrList(v) == [i \in 1..Len(v.kids) |-> v.kids[i].s]

EmptyPrefs == [likes |-> <<>>, dislikes |-> <<>>]

\* a variant whose model keeps the keys it does not declare (extra = allow)
UserPreferencesAllowingExtra(data) ==
    IF data.t # "obj" THEN [exc |-> "TypeError", prefs |-> EmptyPrefs]
    ELSE IF \/ HasKey(data, LIKES) /\ ~IsStrList(GetKey(data, LIKES))
            \/ HasKey(data, DISLIKES) /\ ~IsStrList(GetKey(data, DISLIKES))
    THEN [exc |-> "ValidationError", prefs |-> EmptyPrefs]
    ELSE [exc |-> "",
          prefs |-> [k \in {"likes", "dislikes"}
                            \cup {data.keys[i][1] : i \in 1..Len(data.keys)} |->
                       IF k \in {"likes", "dislikes"}
                       THEN IF HasKey(data, <<k>>)
                            THEN StrList(GetKey(data, <<k>>)) ELSE <<>>
                       ELSE GetKey(data, <<k>>).s]]

\* UserPreferences(**data).dict().  A list field that is absent takes its
\* default_factory, the empty list; keys the model does not declare are
\* ignored.  exc is "" on success.
UserPreferences(data) ==
    IF data.t # "obj" THEN [exc |-> "TypeError", prefs |-> EmptyPrefs]
    ELSE IF \/ HasKey(data, LIKES) /\ ~IsStrList(GetKey(data, LIKES))
            \/ HasKey(data, DISLIKES) /\ ~IsStrList(GetKey(data, DISLIKES))
    THEN [exc |-> "ValidationError", prefs |-> EmptyPrefs]
    ELSE [exc |-> "",
          prefs |-> [likes |-> IF HasKey(data, LIKES)
                               THEN StrList(GetKey(data, LIKES)) ELSE <<>>,
                     dislikes |-> IF HasKey(data, DISLIKES)
                                  THEN StrList(GetKey(data, DISLIKES)) ELSE <<>>]]

NarrativeFields ==
    << <<"title">>, <<"narrative">>, <<"fun_fact">>, <<"location_awareness">> >>

NoNarrative ==
    [title |-> <<>>, narrative |-> <<>>, fun_fact |-> <<>>,
     location_awareness |-> <<>>]

\* JourneyNarrative.parse_obj(data): four required str fields, no length rule
JourneyNarrative(data) ==
    IF data.t # "obj" THEN [exc |-> "ValidationError", val |-> NoNarrative]
    ELSE IF \E i \in 1..4 : \/ ~HasKey(data, NarrativeFields[i])
                            \/ GetKey(data, NarrativeFields[i]).t # "str"
    THEN [exc |-> "ValidationError", val |-> NoNarrative]
    ELSE [exc |-> "",
          val |-> [title |-> GetKey(data, NarrativeFields[1]).s,
                   narrative |-> GetKey(data, NarrativeFields[2]).s,
                   fun_fact |-> GetKey(data, NarrativeFields[3]).s,
                   location_awareness |-> GetKey(data, NarrativeFields[4]).s]]

RECURSIVE FirstIndex(_, _, _)
FirstIndex(s, c, i) ==
    IF i > Len(s) THEN 0 ELSE IF s[i] = c THEN i ELSE FirstIndex(s, c, i + 1)

RECURSIVE LastIndex(_, _, _)
LastIndex(s, c, i) ==
    IF i < 1 THEN 0 ELSE IF s[i] = c THEN i ELSE LastIndex(s, c, i - 1)

\* PydanticOutputParser.parse(text): the text from the first "{" to the last
\* "}" is loaded as JSON and validated; a failure of either step is raised as
\* OutputParserException.
parser_parse(text) ==
    LET a == FirstIndex(text, "{", 1)
        b == LastIndex(text, "}", Len(text))
        j == IF a = 0 \/ b < a THEN ParseFail ELSE json_loads(SubSeq(text, a, b))
        v == JourneyNarrative(j.val)
    IN  IF ~j.ok \/ v.exc # ""
        THEN [exc |-> "OutputParserException", val |-> NoNarrative]
        ELSE [exc |-> "", val |-> v.val]

(***************************************************************************)
(* The state.                                                              *)
(*   db        the users collection: one document per user id              *)
(*   mongoUri  whether MONGO_URI is set in the environment                 *)
(*   mongoUp   whether the MongoDB server answers                          *)
(*   dbClient  what st.cache_resource holds for get_db_client              *)
(*   call      the calls in flight, one record per call slot               *)
(*   session   st.session_state of one browser session and the position of *)
(*             its Create My Journey handler                               *)
(***************************************************************************)
VARIABLES db, mongoUri, mongoUp, dbClient, call, session

vars == <<db, mongoUri, mongoUp, dbClient, call, session>>

Users == {"u1", "u2"}
Calls == {"c1", "c2"}

TopicA == <<"a">>
TopicB == <<"b">>

NoDoc == [exists |-> FALSE, hasPrefs |-> FALSE, prefs |-> EmptyPrefs]
BareDoc == [exists |-> TRUE, hasPrefs |-> FALSE, prefs |-> EmptyPrefs]
PrefsDoc(p) == [exists |-> TRUE, hasPrefs |-> TRUE, prefs |-> p]

\* the documents a user may have before the first call
InitDocs ==
    {NoDoc, BareDoc, PrefsDoc(EmptyPrefs),
     PrefsDoc([likes |-> <<TopicB>>, dislikes |-> <<>>])}

(***************************************************************************)
(* app/knowledge_base.py                                                   *)
(***************************************************************************)
\* a variant that keeps a client and tries again after None
get_db_client_retrying ==
    IF dbClient = "client" THEN "client"
    ELSE IF mongoUri /\ mongoUp THEN "client" ELSE "none"

\* get_db_client under st.cache_resource: the first result is kept, None too
get_db_client ==
    IF dbClient # "uncached" THEN dbClient
    ELSE IF mongoUri /\ mongoUp THEN "client" ELSE "none"

\* a variant that reads the document of one fixed user
get_user_preferences_fixed_user(user_id) ==
    IF get_db_client = "none" THEN [exc |-> "", prefs |-> EmptyPrefs]
    ELSE IF ~mongoUp THEN [exc |-> "PyMongoError", prefs |-> EmptyPrefs]
    ELSE IF db["u1"].exists /\ db["u1"].hasPrefs
    THEN [exc |-> "", prefs |-> db["u1"].prefs]
    ELSE [exc |-> "", prefs |-> EmptyPrefs]

\* find_one and update_one raise when the server does not answer
get_user_preferences(user_id) ==
    IF get_db_client = "none" THEN [exc |-> "", prefs |-> EmptyPrefs]
    ELSE IF ~mongoUp THEN [exc |-> "PyMongoError", prefs |-> EmptyPrefs]
    ELSE IF db[user_id].exists /\ db[user_id].hasPrefs
    THEN [exc |-> "", prefs |-> db[user_id].prefs]
    ELSE [exc |-> "", prefs |-> EmptyPrefs]

\* a variant that adds the new entries to the stored ones
update_user_preferences_merging(user_id, new_preferences) ==
    IF get_db_client = "none"
    THEN [exc |-> "", wrote |-> FALSE, warned |-> TRUE, db |-> db]
    ELSE IF ~mongoUp
    THEN [exc |-> "PyMongoError", wrote |-> FALSE, warned |-> FALSE, db |-> db]
    ELSE [exc |-> "", wrote |-> TRUE, warned |-> FALSE,
          db |-> [db EXCEPT ![user_id] =
                    PrefsDoc([likes |-> @.prefs.likes \o new_preferences.likes,
                              dislikes |-> @.prefs.dislikes
                                             \o new_preferences.dislikes])]]

\* a variant whose filter matches every document (update_many with {})
update_user_preferences_every_user(user_id, new_preferences) ==
    IF get_db_client = "none"
    THEN [exc |-> "", wrote |-> FALSE, warned |-> TRUE, db |-> db]
    ELSE IF ~mongoUp
    THEN [exc |-> "PyMongoError", wrote |-> FALSE, warned |-> FALSE, db |-> db]
    ELSE [exc |-> "", wrote |-> TRUE, warned |-> FALSE,
          db |-> [u \in Users |->
                    IF u = user_id \/ db[u].exists
                    THEN PrefsDoc(new_preferences) ELSE db[u]]]

\* a variant that writes only when the user has no profile yet
update_user_preferences_insert_only(user_id, new_preferences) ==
    IF get_db_client = "none"
    THEN [exc |-> "", wrote |-> FALSE, warned |-> TRUE, db |-> db]
    ELSE IF ~mongoUp
    THEN [exc |-> "PyMongoError", wrote |-> FALSE, warned |-> FALSE, db |-> db]
    ELSE [exc |-> "", wrote |-> TRUE, warned |-> FALSE,
          db |-> [db EXCEPT ![user_id] =
                    IF @.exists /\ @.hasPrefs THEN @
                    ELSE PrefsDoc(new_preferences)]]

\* update_one({"_id": user_id}, {"$set": {"preferences": new}}, upsert=True)
update_user_preferences(user_id, new_preferences) ==
    IF get_db_client = "none"
    THEN [exc |-> "", wrote |-> FALSE, warned |-> TRUE, db |-> db]
    ELSE IF ~mongoUp
    THEN [exc |-> "PyMongoError", wrote |-> FALSE, warned |-> FALSE, db |-> db]
    ELSE [exc |-> "", wrote |-> TRUE, warned |-> FALSE,
          db |-> [db EXCEPT ![user_id] = PrefsDoc(new_preferences)]]

DELIM == "\n\n---\n\n"
Unavailable == <<"Knowledge base is currently unavailable.">>

\* the default of the parameter k of search_knowledge_base
K == 5

RECURSIVE Join(_, _)
Join(chunks, i) ==
    IF i > Len(chunks) THEN <<>>
    ELSE chunks[i] \o (IF i < Len(chunks) THEN <<DELIM>> ELSE <<>>)
         \o Join(chunks, i + 1)

\* Python list indexing: a negative index counts from the end
PyItem(list, i) == IF i >= 0 THEN list[i + 1] ELSE list[Len(list) + i + 1]

\* a variant that treats an unavailable index as an empty context
search_knowledge_base_silent(faiss_index, knowledge_base_texts, indices) ==
    IF faiss_index = "None" \/ knowledge_base_texts = <<>>
    THEN <<>>
    ELSE Join([n \in 1..Len(indices) |->
                  PyItem(knowledge_base_texts, indices[n])], 1)

\* faiss_index is "None" when the index failed to load; indices is the row
\* indices[0] that faiss_index.search returned
search_knowledge_base(faiss_index, knowledge_base_texts, indices) ==
    IF faiss_index = "None" \/ knowledge_base_texts = <<>>
    THEN Unavailable
    ELSE Join([n \in 1..Len(indices) |->
                  PyItem(knowledge_base_texts, indices[n])], 1)

(***************************************************************************)
(* app/knowledge_base.py: the points of interest, collection NSK_AI.       *)
(***************************************************************************)
Cities == {"Nsukka", "Enugu"}

\* a number of a JSON document, by its digits
JNumber(n) == [t |-> "num", s |-> <<n>>, keys |-> <<>>, kids |-> <<>>]

\* a GeoJSON position [lon, lat]
Position(lon, lat) == JArr(<<JNumber(lon), JNumber(lat)>>)

\* the documents of the collection, in the order a cursor yields them
POIS ==
    << [_id |-> "p1", name |-> "Central Library", city |-> "Nsukka",
        tags |-> {"quiet"}, budget_level |-> "free",
        coordinates |-> Position("7.41", "6.86")],
       [_id |-> "p2", name |-> "Ogige Market", city |-> "Nsukka",
        tags |-> {"food"}, budget_level |-> "low",
        coordinates |-> Position("7.39", "6.85")] >>

\* None where a document is expected
NoPoi ==
    [_id |-> "None", name |-> "None", city |-> "None", tags |-> {},
     budget_level |-> "None", coordinates |-> JNull]

PoiIds == {POIS[i]._id : i \in 1..Len(POIS)}
Tags == UNION {POIS[i].tags : i \in 1..Len(POIS)}
Budgets == <<"free", "low", "medium", "high">>

\* the queries of the collection raise when the server does not answer
Answer(val, nothing) ==
    IF ~mongoUp THEN [exc |-> "PyMongoError", val |-> nothing]
    ELSE [exc |-> "", val |-> val]

\* find({"city": city, "tags": {"$all": tags}, "budget_level": budget}),
\* the last two only when given; budget "Any" is no filter
Find(city, tags, budget) ==
    SelectSeq(POIS, LAMBDA poi :
        /\ poi.city = city
        /\ tags \subseteq poi.tags
        /\ (budget = "Any" \/ poi.budget_level = budget))

\* a variant without the guard on the client: None is subscripted
get_pois_by_city_unguarded(city, tags, budget) ==
    IF get_db_client = "none" THEN [exc |-> "TypeError", val |-> <<>>]
    ELSE Answer(Find(city, tags, budget), <<>>)

get_pois_by_city(city, tags, budget) ==
    IF get_db_client = "none" THEN [exc |-> "", val |-> <<>>]
    ELSE Answer(Find(city, tags, budget), <<>>)

\* find_one({"_id": poi_id}): the document, or None
get_poi_by_id(poi_id) ==
    IF get_db_client = "none" THEN [exc |-> "", val |-> NoPoi]
    ELSE Answer(IF poi_id \in PoiIds
                THEN POIS[CHOOSE i \in 1..Len(POIS) : POIS[i]._id = poi_id]
                ELSE NoPoi, NoPoi)

\* distinct("tags", {"city": city})
get_unique_tags_by_city(city) ==
    IF get_db_client = "none" THEN [exc |-> "", val |-> {}]
    ELSE Answer(UNION {POIS[i].tags :
                         i \in {j \in 1..Len(POIS) : POIS[j].city = city}}, {})

\* distinct("budget_level", {"city": city}), sorted free, low, medium, high
get_unique_budgets_by_city(city) ==
    IF get_db_client = "none" THEN [exc |-> "", val |-> <<>>]
    ELSE Answer(SelectSeq(Budgets, LAMBDA b :
                    \E i \in 1..Len(POIS) :
                      POIS[i].city = city /\ POIS[i].budget_level = b), <<>>)

(***************************************************************************)
(* app/services.py: get_route_from_ors.  A response of the routing service *)
(* is what client.get gives: kind is RequestError when no response came,   *)
(* HTTPStatusError when raise_for_status rejects the status,               *)
(* JSONDecodeError when the body is not JSON, and otherwise json is the    *)
(* value of response.json().                                               *)
(***************************************************************************)
Here == Position("7.38", "6.855")

Segment(distance, duration) ==
    JObj(<<"distance", "duration">>, <<JNumber(distance), JNumber(duration)>>)

Feature(segments, path) ==
    JObj(<<"properties", "geometry">>,
         << JObj(<<"segments">>, <<JArr(segments)>>),
            JObj(<<"coordinates">>, <<JArr(path)>>) >>)

FeatureCollection(features) == JObj(<<"features">>, <<JArr(features)>>)

OrsResponse(kind, json) == [kind |-> kind, json |-> json]

\* the responses to a request for a route from Here to the position end
OrsResponses(end) ==
    { OrsResponse("RequestError", JNull),
      OrsResponse("HTTPStatusError", JNull),
      OrsResponse("JSONDecodeError", JNull) }
    \cup
    { OrsResponse("ok", j) : j \in
        { FeatureCollection(<< Feature(<<Segment("900", "600"), Segment("50", "40")>>,
                                       <<Here, end>>),
                               Feature(<<Segment("1200", "800")>>, <<Here, Here, end>>) >>),
          FeatureCollection(<< Feature(<<Segment("1200", "800")>>, <<Here, Here, end>>) >>),
          FeatureCollection(<<>>),
          FeatureCollection(<< Feature(<<>>, <<Here, end>>) >>),
          FeatureCollection(<< JObj(<<"properties">>,
                                    <<JObj(<<"segments">>,
                                           <<JArr(<<Segment("900", "600")>>)>>)>>) >>),
          FeatureCollection(<< Feature(<<JObj(<<"distance">>, <<JNumber("900")>>)>>,
                                       <<Here, end>>) >>),
          JObj(<<"error">>, <<JStr(<<"quota">>)>>),
          JObj(<<"features">>, <<JNull>>) } }

\* v[k] for a string k
GetItem(v, k) ==
    IF v.t = "obj"
    THEN IF HasKey(v, k) THEN [exc |-> "", val |-> GetKey(v, k)]
         ELSE [exc |-> "KeyError", val |-> JNull]
    ELSE [exc |-> "TypeError", val |-> JNull]

\* v[0]
GetFirst(v) ==
    IF v.t = "arr"
    THEN IF Len(v.kids) > 0 THEN [exc |-> "", val |-> v.kids[1]]
         ELSE [exc |-> "IndexError", val |-> JNull]
    ELSE IF v.t = "obj" THEN [exc |-> "KeyError", val |-> JNull]
    ELSE IF v.t = "str"
    THEN IF Len(v.s) > 0 THEN [exc |-> "", val |-> v]
         ELSE [exc |-> "IndexError", val |-> JNull]
    ELSE [exc |-> "TypeError", val |-> JNull]

\* v[path[1]][path[2]]..., "[0]" standing for the index 0; the first
\* subscript that raises ends the evaluation
RECURSIVE Subscript(_, _)
Subscript(v, path) ==
    IF path = <<>> THEN [exc |-> "", val |-> v]
    ELSE LET r == IF Head(path) = "[0]" THEN GetFirst(v)
                  ELSE GetItem(v, Head(path))
         IN  IF r.exc # "" THEN r ELSE Subscript(r.val, Tail(path))

RouteKeys == <<"duration", "distance", "points">>

\* what the except clauses make of an exception of the try block
OrsExcept(e) ==
    IF e = "RequestError" THEN "Network error calling OpenRouteService"
    ELSE IF e = "HTTPStatusError" THEN "API error from OpenRouteService"
    ELSE IF e \in {"KeyError", "IndexError"}
    THEN "Unexpected data format from OpenRouteService"
    ELSE e

\* a variant that fills what the response lacks with None
get_route_from_ors_lenient(response) ==
    IF response.kind # "ok"
    THEN [exc |-> OrsExcept(response.kind), val |-> JNull]
    ELSE LET route_info == Subscript(response.json,
                 <<"features", "[0]", "properties", "segments", "[0]">>)
             geometry == Subscript(response.json,
                 <<"features", "[0]", "geometry", "coordinates">>)
         IN  [exc |-> "",
              val |-> JObj(RouteKeys,
                           << GetItem(route_info.val, "duration").val,
                              GetItem(route_info.val, "distance").val,
                              geometry.val >>)]

\* exc is the text of the exception raised, "" when the route is returned
get_route_from_ors(response) ==
    IF response.kind # "ok"
    THEN [exc |-> OrsExcept(response.kind), val |-> JNull]
    ELSE LET route_info == Subscript(response.json,
                 <<"features", "[0]", "properties", "segments", "[0]">>)
             geometry == Subscript(response.json,
                 <<"features", "[0]", "geometry", "coordinates">>)
             duration == GetItem(route_info.val, "duration")
             distance == GetItem(route_info.val, "distance")
             e == IF route_info.exc # "" THEN route_info.exc
                  ELSE IF geometry.exc # "" THEN geometry.exc
                  ELSE IF duration.exc # "" THEN duration.exc
                  ELSE distance.exc
         IN  IF e # "" THEN [exc |-> OrsExcept(e), val |-> JNull]
             ELSE [exc |-> "",
                   val |-> JObj(RouteKeys,
                                <<duration.val, distance.val, geometry.val>>)]

(***************************************************************************)
(* The collaborators, as sets of the answers they can give.                *)
(***************************************************************************)
\* the largest corpus the knowledge base holds
MaxChunks == 2

Min(a, b) == IF a < b THEN a ELSE b

\* data.pkl with n chunks
Corpus(n) == [i \in 1..n |-> <<"chunk" \o ToString(i)>>]

\* the rows faiss_index.search(query, k) can return for an index of ntotal
\* vectors: m distinct labels, nearest first, then -1 for each missing one
SearchRows(ntotal, k) ==
    UNION {
      { [n \in 1..k |-> IF n <= m THEN f[n] ELSE -1] :
          f \in { g \in [1..m -> 0..(ntotal - 1)] :
                    \A x, y \in 1..m : x # y => g[x] # g[y] } } :
      m \in 0..Min(ntotal, k) }

\* what one search sees: the loaded index (or None), the loaded texts and
\* the row returned.  The index is built from the texts: ntotal = len(texts).
\* No row is returned (<<>>) when the search is not reached.
KbInputs ==
    { [faiss_index |-> "None", texts |-> Corpus(n), indices |-> <<>>] :
        n \in 0..MaxChunks }
    \cup { [faiss_index |-> "faiss", texts |-> <<>>, indices |-> <<>>] }
    \cup UNION {
      { [faiss_index |-> "faiss", texts |-> Corpus(n), indices |-> r] :
          r \in SearchRows(n, K) } :
      n \in 1..MaxChunks }

Fenced(text) == <<FENCE, "json", WS>> \o text \o <<WS, FENCE>>

PrefsObj(likes, dislikes) ==
    JObj(<<LIKES, DISLIKES>>,
         <<JArr([i \in 1..Len(likes) |-> JStr(likes[i])]),
           JArr([i \in 1..Len(dislikes) |-> JStr(dislikes[i])])>>)

\* the profiles the reflection oracle may answer with
AnswerProfiles ==
    { [likes |-> <<TopicA>>, dislikes |-> <<>>],
      [likes |-> <<>>, dislikes |-> <<TopicA, TopicB>>],
      [likes |-> <<<<FENCE, "a">>>>, dislikes |-> <<>>],
      [likes |-> << <<"A">>, TopicA >>, dislikes |-> <<>>] }

\* the answers of the oracle to the reflection prompt
ReflectionAnswers ==
    { Dump(PrefsObj(p.likes, p.dislikes)) : p \in AnswerProfiles }
    \cup { Fenced(Dump(PrefsObj(<<TopicA>>, <<>>))) }
    \cup { <<"not", WS, "json">>,
           Dump(JObj(<<DISLIKES>>, <<JArr(<<JStr(TopicA)>>)>>)),
           Dump(JObj(<<LIKES>>, <<JArr(<<JStr(TopicA)>>)>>)),
           Dump(JObj(<<>>, <<>>)),
           Dump(JArr(<<>>)),
           Dump(JNull),
           Dump(JObj(<<LIKES, DISLIKES>>, <<JStr(TopicA), JArr(<<>>)>>)),
           Dump(JObj(<<LIKES, DISLIKES, <<"note">>>>,
                     <<JArr(<<JStr(TopicA)>>), JArr(<<>>), JStr(TopicB)>>)) }

X == <<"x">>

NarrativeObj(title, narrative, fun_fact, location_awareness) ==
    JObj(NarrativeFields,
         <<JStr(title), JStr(narrative), JStr(fun_fact),
           JStr(location_awareness)>>)

\* the answers of the oracle to the narrative prompt
NarrativeAnswers ==
    { Dump(NarrativeObj(X, X, X, X)),
      Fenced(Dump(NarrativeObj(X, X, X, X))),
      Dump(NarrativeObj(<<>>, X, X, X)),
      Dump(NarrativeObj(X, X, X, <<>>)),
      Dump(JObj(<<NarrativeFields[1], NarrativeFields[2], NarrativeFields[4]>>,
                <<JStr(X), JStr(X), JStr(X)>>)),
      Dump(JObj(NarrativeFields, <<JStr(X), JNull, JStr(X), JStr(X)>>)),
      <<"Sorry,", WS, "no", WS, "story">> }

(***************************************************************************)
(* One call of generate_narrative_with_rag or reflect_and_update_          *)
(* preferences.  impl names the revision: "services" is app/services.py,   *)
(* "service" is app/service.py.  pc is the next external call the function *)
(* makes; trace lists the external calls made so far, in order; wrote      *)
(* tells whether update_one was executed; doc0 is the document of the user *)
(* when the call began.                                                    *)
(***************************************************************************)
City == <<"Nsukka">>
Destination == <<"Central Library">>
Query == <<"quiet walk">>

NoPrompt ==
    [city |-> <<>>, destination_name |-> <<>>, query |-> <<>>,
     preferences |-> EmptyPrefs, context |-> <<>>, fallback_plan |-> FALSE]

NoKb == [faiss_index |-> "None", texts |-> <<>>, indices |-> <<>>]

Idle ==
    [op |-> "idle", impl |-> "services", pc |-> "idle", user_id |-> "u1",
     user_prefs |-> EmptyPrefs, kb |-> NoKb, context |-> <<>>,
     prompt |-> NoPrompt, ai_response |-> <<>>, validated_prefs |-> EmptyPrefs,
     result |-> NoNarrative, exc |-> "", trace |-> <<>>, notices |-> <<>>,
     wrote |-> FALSE, doc0 |-> NoDoc]

\* the f-string of generate_narrative_with_rag, by the values it interpolates
BuildPrompt(impl, user_prefs, context) ==
    IF impl = "services"
    THEN [city |-> City, destination_name |-> Destination, query |-> Query,
          preferences |-> user_prefs, context |-> context,
          fallback_plan |-> TRUE]
    ELSE [city |-> <<>>, destination_name |-> <<>>, query |-> Query,
          preferences |-> user_prefs, context |-> context,
          fallback_plan |-> FALSE]

Raise(c, e) == [c EXCEPT !.pc = "raised", !.exc = e]

\* st.error(f"An error occurred while creating your journey: {e}")
ErrorOccurred == "An error occurred while creating your journey: "

\* the three front ends that create a journey: the page of src/main.py, the
\* endpoint generate_journey of src/app/main.py, the page of src/streamlit.py
Fronts == {"main", "api", "page"}

NoResponse == OrsResponse("none", JNull)

Welcome ==
    [role |-> "assistant",
     content |-> "Welcome! I am your personal tour guide. Ask me anything about your journey."]

\* st.session_state at the start of a session, with the locals of the run
\* of the script that is under way: request is the destination_poi_id of
\* the JourneyRequest, dest_poi, response and route_data the locals of the
\* handler.  shown is the message the handler displayed last, drawn what
\* the journey block of the last run drew: nothing, the marker of a
\* destination, or the exception that ended the run.  narrative_request
\* and route_request record the request whose attempt produced the stored
\* narrative and the stored route.
NewSession ==
    [front |-> "main", pc |-> "idle",
     selected_city |-> "Nsukka", selected_destination_id |-> "None",
     start_location |-> FALSE,
     request |-> "None", dest_poi |-> NoPoi, response |-> NoResponse,
     route_data |-> JNull,
     journey_narrative |-> NoNarrative, journey_route_data |-> JNull,
     narrative_request |-> "None", route_request |-> "None",
     shown |-> <<>>, drawn |-> "nothing",
     messages |-> <<Welcome>>]

TypeOK ==
    /\ mongoUri \in BOOLEAN
    /\ mongoUp \in BOOLEAN
    /\ dbClient \in {"uncached", "client", "none"}
    /\ DOMAIN db = Users
    /\ DOMAIN call = Calls
    /\ session.front \in Fronts
    /\ session.pc \in {"idle", "lookup", "route", "routed", "call",
                       "narrative", "gather", "chat", "oracle"}
    /\ session.selected_city \in Cities
    /\ session.selected_destination_id \in PoiIds \cup {"None"}
    /\ session.start_location \in BOOLEAN
    /\ session.journey_route_data.t \in {"null", "obj"}
    /\ session.route_data.t \in {"null", "obj"}
    /\ \A c \in Calls :
         /\ call[c].op \in {"idle", "gen", "refl"}
         /\ call[c].pc \in {"idle", "prefs", "embed", "search", "invoke",
                            "update", "done", "raised"}

Init ==
    /\ db \in [Users -> InitDocs]
    /\ mongoUri \in BOOLEAN
    /\ mongoUp \in BOOLEAN
    /\ dbClient = "uncached"
    /\ call = [c \in Calls |-> Idle]
    /\ session = NewSession

(***************************************************************************)
(* generate_narrative_with_rag                                             *)
(***************************************************************************)
\* the call record when the body of generate_narrative_with_rag begins
GenCall(impl, user_id) ==
    [Idle EXCEPT !.op = "gen", !.impl = impl, !.pc = "prefs",
                 !.user_id = user_id, !.doc0 = db[user_id]]

StartGen(c, impl, user_id) ==
    /\ call[c].op = "idle"
    /\ call' = [call EXCEPT ![c] = GenCall(impl, user_id)]
    /\ UNCHANGED <<db, mongoUri, mongoUp, dbClient, session>>

\* a variant that creates the empty profile of a user who has none
GenPrefsCreating(c) ==
    /\ call[c].op = "gen" /\ call[c].pc = "prefs"
    /\ LET r == get_user_preferences(call[c].user_id)
           t == [call[c] EXCEPT !.trace = Append(@, "prefs")]
       IN  /\ call' = [call EXCEPT ![c] =
                         IF r.exc # "" THEN Raise(t, r.exc)
                         ELSE [t EXCEPT !.user_prefs = r.prefs, !.pc = "embed"]]
           /\ db' = IF r.exc = "" /\ get_db_client = "client"
                       /\ ~db[call[c].user_id].exists
                    THEN [db EXCEPT ![call[c].user_id] = PrefsDoc(EmptyPrefs)]
                    ELSE db
    /\ dbClient' = get_db_client
    /\ UNCHANGED <<mongoUri, mongoUp, session>>

\* user_prefs = knowledge_base.get_user_preferences(request.user_id)
GenPrefs(c) ==
    /\ call[c].op = "gen" /\ call[c].pc = "prefs"
    /\ LET r == get_user_preferences(call[c].user_id)
           t == [call[c] EXCEPT !.trace = Append(@, "prefs")]
       IN  call' = [call EXCEPT ![c] =
                      IF r.exc # "" THEN Raise(t, r.exc)
                      ELSE [t EXCEPT !.user_prefs = r.prefs, !.pc = "embed"]]
    /\ dbClient' = get_db_client
    /\ UNCHANGED <<db, mongoUri, mongoUp, session>>

\* a variant that notes the failure and goes on to the search
EmbedStepSwallowing(c, ok) ==
    LET t == [c EXCEPT !.trace = Append(@, "embed"), !.pc = "search"]
    IN  IF ok THEN t ELSE [t EXCEPT !.exc = "EmbeddingError"]

\* query_embedding = embedding_model.encode(request.query)
EmbedStep(c, ok) ==
    LET t == [c EXCEPT !.trace = Append(@, "embed")]
    IN  IF ok THEN [t EXCEPT !.pc = "search"] ELSE Raise(t, "EmbeddingError")

GenEmbed(c) ==
    /\ call[c].op = "gen" /\ call[c].pc = "embed"
    /\ \E ok \in BOOLEAN : call' = [call EXCEPT ![c] = EmbedStep(call[c], ok)]
    /\ UNCHANGED <<db, mongoUri, mongoUp, dbClient, session>>

\* a variant that builds the prompt before the search has answered
SearchStepEarlyPrompt(c, kb) ==
    LET context == search_knowledge_base(kb.faiss_index, kb.texts, kb.indices)
    IN  [c EXCEPT !.trace = Append(@, "search"), !.kb = kb,
                  !.context = context,
                  !.prompt = BuildPrompt(c.impl, c.user_prefs, c.context),
                  !.pc = "invoke"]

\* context = knowledge_base.search_knowledge_base(query_embedding_2d), then
\* the prompt is built
SearchStep(c, kb) ==
    LET context == search_knowledge_base(kb.faiss_index, kb.texts, kb.indices)
    IN  [c EXCEPT !.trace = Append(@, "search"), !.kb = kb,
                  !.context = context,
                  !.prompt = BuildPrompt(c.impl, c.user_prefs, context),
                  !.pc = "invoke"]

GenSearch(c) ==
    /\ call[c].op = "gen" /\ call[c].pc = "search"
    /\ \E kb \in KbInputs : call' = [call EXCEPT ![c] = SearchStep(call[c], kb)]
    /\ UNCHANGED <<db, mongoUri, mongoUp, dbClient, session>>

\* a variant that asks the oracle again when the answer does not parse
ParseStepRetrying(c, content) ==
    LET r == parser_parse(content)
        t == [c EXCEPT !.trace = Append(@, "invoke"), !.ai_response = content]
    IN  IF r.exc # "" THEN [t EXCEPT !.pc = "invoke"]
        ELSE [t EXCEPT !.result = r.val, !.pc = "done"]

\* ai_response = llm.invoke(prompt); return parser.parse(ai_response.content)
ParseStep(c, content) ==
    LET r == parser_parse(content)
        t == [c EXCEPT !.trace = Append(@, "invoke"), !.ai_response = content]
    IN  IF r.exc # "" THEN Raise(t, r.exc)
        ELSE [t EXCEPT !.result = r.val, !.pc = "done"]

GenInvoke(c) ==
    /\ call[c].op = "gen" /\ call[c].pc = "invoke"
    /\ \/ \E content \in NarrativeAnswers :
            call' = [call EXCEPT ![c] = ParseStep(call[c], content)]
       \/ call' = [call EXCEPT ![c] =
                     Raise([call[c] EXCEPT !.trace = Append(@, "invoke")],
                           "LLMError")]
    /\ UNCHANGED <<db, mongoUri, mongoUp, dbClient, session>>

(***************************************************************************)
(* reflect_and_update_preferences                                          *)
(***************************************************************************)
StartRefl(c, impl, user_id) ==
    /\ call[c].op = "idle"
    /\ call' = [call EXCEPT ![c] =
                  [Idle EXCEPT !.op = "refl", !.impl = impl, !.pc = "prefs",
                               !.user_id = user_id, !.doc0 = db[user_id]]]
    /\ UNCHANGED <<db, mongoUri, mongoUp, dbClient, session>>

\* current_prefs = knowledge_base.get_user_preferences(request.user_id)
ReflPrefs(c) ==
    /\ call[c].op = "refl" /\ call[c].pc = "prefs"
    /\ LET r == get_user_preferences(call[c].user_id)
           t == [call[c] EXCEPT !.trace = Append(@, "prefs")]
       IN  call' = [call EXCEPT ![c] =
                      IF r.exc # "" THEN Raise(t, r.exc)
                      ELSE [t EXCEPT !.user_prefs = r.prefs, !.pc = "invoke"]]
    /\ dbClient' = get_db_client
    /\ UNCHANGED <<db, mongoUri, mongoUp, session>>

\* ai_response.content.strip().replace(fence + "json", "").replace(fence, "")
cleaned_response(content) ==
    Remove(Remove(Strip(content), <<FENCE, "json">>), <<FENCE>>)

\* app/services.py: the try block up to the validation; every exception is
\* caught and shown as a warning
ValidateServices(c, content) ==
    LET j == json_loads(cleaned_response(content))
        v == UserPreferences(j.val)
        t == [c EXCEPT !.trace = Append(@, "invoke"), !.ai_response = content]
    IN  IF ~j.ok \/ v.exc # ""
        THEN [t EXCEPT !.notices = Append(@, "warning"), !.pc = "done"]
        ELSE [t EXCEPT !.validated_prefs = v.prefs, !.pc = "update"]

\* app/service.py: json.loads of the raw content; JSONDecodeError and
\* ValidationError are caught and the function returns, any other exception
\* leaves the function
ValidateService(c, content) ==
    LET j == json_loads(content)
        v == UserPreferences(j.val)
        t == [c EXCEPT !.trace = Append(@, "invoke"), !.ai_response = content]
    IN  IF ~j.ok \/ v.exc = "ValidationError" THEN [t EXCEPT !.pc = "done"]
        ELSE IF v.exc # "" THEN Raise(t, v.exc)
        ELSE [t EXCEPT !.validated_prefs = v.prefs, !.pc = "update"]

\* ai_response = llm.invoke(reflection_prompt), then the validation
ReflInvoke(c) ==
    /\ call[c].op = "refl" /\ call[c].pc = "invoke"
    /\ \/ \E content \in ReflectionAnswers :
            call' = [call EXCEPT ![c] =
                       IF call[c].impl = "services"
                       THEN ValidateServices(call[c], content)
                       ELSE ValidateService(call[c], content)]
       \/ call' = [call EXCEPT ![c] =
                     Raise([call[c] EXCEPT !.trace = Append(@, "invoke")],
                           "LLMError")]
    /\ UNCHANGED <<db, mongoUri, mongoUp, dbClient, session>>

\* knowledge_base.update_user_preferences(request.user_id,
\* validated_prefs.dict()).  app/services.py calls it inside the try block
\* and shows the toast after it; app/service.py calls it after the try block.
UpdateStep(c, r) ==
    LET t == [c EXCEPT !.trace = Append(@, "update"), !.wrote = r.wrote]
        w == IF r.warned THEN <<"warning">> ELSE <<>>
    IN  IF c.impl = "services"
        THEN IF r.exc # ""
             THEN [t EXCEPT !.notices = @ \o <<"warning">>, !.pc = "done"]
             ELSE [t EXCEPT !.notices = @ \o w \o <<"toast">>, !.pc = "done"]
        ELSE IF r.exc # "" THEN Raise(t, r.exc) ELSE [t EXCEPT !.pc = "done"]

ReflUpdate(c) ==
    /\ call[c].op = "refl" /\ call[c].pc = "update"
    /\ LET r == update_user_preferences(call[c].user_id,
                                        call[c].validated_prefs)
       IN  /\ call' = [call EXCEPT ![c] = UpdateStep(call[c], r)]
           /\ db' = r.db
    /\ dbClient' = get_db_client
    /\ UNCHANGED <<mongoUri, mongoUp, session>>

\* the function has returned or raised; the slot is free for the next call
Return(c) ==
    /\ call[c].pc \in {"done", "raised"}
    /\ call' = [call EXCEPT ![c] = Idle]
    /\ UNCHANGED <<db, mongoUri, mongoUp, dbClient, session>>

\* the MongoDB server becomes unreachable, or reachable again
MongoFlip ==
    /\ mongoUp' = ~mongoUp
    /\ UNCHANGED <<db, mongoUri, dbClient, call, session>>

Impls == {"services", "service"}

Step(c) ==
    \/ \E impl \in Impls, u \in Users : StartGen(c, impl, u)
    \/ GenPrefs(c)
    \/ GenEmbed(c)
    \/ GenSearch(c)
    \/ GenInvoke(c)
    \/ \E impl \in Impls, u \in Users : StartRefl(c, impl, u)
    \/ ReflPrefs(c)
    \/ ReflInvoke(c)
    \/ ReflUpdate(c)
    \/ Return(c)

\* one call at a time
Next == Step("c1") \/ MongoFlip

Spec == Init /\ [][Next]_vars

(***************************************************************************)
(* Two calls in flight at once: two Streamlit sessions run in two threads  *)
(* of one process and both call app/services.py, so the external calls of  *)
(* the two functions interleave freely.  The store is reachable and the    *)
(* collaborators answer; the oracle answers with one of PairAnswers and    *)
(* the index with PairKb.                                                  *)
(***************************************************************************)
PairDocs == {NoDoc, PrefsDoc([likes |-> <<TopicB>>, dislikes |-> <<>>])}

PairKb ==
    [faiss_index |-> "faiss", texts |-> Corpus(1),
     indices |-> [n \in 1..K |-> IF n = 1 THEN 0 ELSE -1]]

\* the answers to the narrative prompt and to the reflection prompt
PairAnswers(op) ==
    IF op = "gen" THEN { Dump(NarrativeObj(X, X, X, X)) }
    ELSE { Dump(PrefsObj(<<TopicA>>, <<>>)),
           Dump(PrefsObj(<<>>, <<TopicA, TopicB>>)),
           <<"not", WS, "json">> }

\* the two users are alike, so it is u1 whose first document varies
InitPair ==
    /\ db \in [Users -> PairDocs]
    /\ db["u2"] = PrefsDoc([likes |-> <<TopicB>>, dislikes |-> <<>>])
    /\ mongoUri = TRUE
    /\ mongoUp = TRUE
    /\ dbClient = "uncached"
    /\ call = [c \in Calls |-> Idle]
    /\ session = NewSession

PairScope(c) ==
    /\ call[c].exc \notin {"EmbeddingError", "LLMError"}
    /\ call[c].kb \in {NoKb, PairKb}
    /\ call[c].ai_response \in PairAnswers(call[c].op) \cup {<<>>}

\* the sessions of main.py all call app/services.py
SameRevision == \A c \in Calls : call[c].impl = "services"

PairStep(c) == Step(c) /\ PairScope(c)' /\ SameRevision'

NextPair == PairStep("c1") \/ PairStep("c2")

SpecPair == InitPair /\ [][NextPair]_vars

(***************************************************************************)
(* main.py: the Create My Journey handler of one session.  It runs in the  *)
(* call slot c1 for the static user of the session.                        *)
(***************************************************************************)
SessionUser == "u1"

\* bool(v) of a JSON value
Truthy(v) ==
    IF v.t = "null" THEN FALSE
    ELSE IF v.t = "obj" THEN v.keys # <<>>
    ELSE IF v.t = "arr" THEN v.kids # <<>>
    ELSE IF v.t = "str" THEN v.s # <<>>
    ELSE TRUE

\* the journey block of main.py: it looks up the destination selected now
\* and subscripts the result; nothing in the block is in a try
Display(s) ==
    IF s.front # "main" THEN s
    ELSE IF Truthy(s.journey_route_data) /\ s.journey_narrative # NoNarrative
    THEN LET dest_poi == get_poi_by_id(s.selected_destination_id)
         IN  [s EXCEPT !.drawn = IF dest_poi.exc # "" THEN dest_poi.exc
                                 ELSE IF dest_poi.val = NoPoi THEN "TypeError"
                                 ELSE dest_poi.val._id]
    ELSE [s EXCEPT !.drawn = "nothing"]

\* the queries of the sidebar raise, and end the run of the script
SidebarRaises == get_db_client = "client" /\ ~mongoUp

\* the run of the script ended in the sidebar
Crashed(s) ==
    [s EXCEPT !.pc = "idle", !.shown = <<>>, !.drawn = "PyMongoError"]

\* the sidebar of main.py with the widgets as the user has set them; choice
\* is the entry of the destination box, "None" its blank entry
SidebarRun(s, city, tags, budget, choice) ==
    LET poi_list == get_pois_by_city(city, tags, budget).val
    IN  [s EXCEPT !.selected_city = city,
                  !.selected_destination_id =
                      IF poi_list # <<>> THEN choice ELSE "None"]

\* the sidebar when the user has touched none of its widgets: the lists
\* are the same unless the client is missing, and then they are empty
SidebarRerun(s) ==
    IF get_db_client = "none"
    THEN [s EXCEPT !.selected_destination_id = "None"]
    ELSE s

\* the user changes a widget of the sidebar and the script runs again
Sidebar ==
    /\ session.front = "main" /\ session.pc = "idle"
    /\ IF SidebarRaises THEN session' = Crashed(session)
       ELSE \E city \in Cities :
              \E tags \in SUBSET get_unique_tags_by_city(city).val :
                \E budget \in {"Any"} \cup
                     {get_unique_budgets_by_city(city).val[i] :
                        i \in 1..Len(get_unique_budgets_by_city(city).val)} :
                  LET poi_list == get_pois_by_city(city, tags, budget).val
                  IN  \E choice \in {"None"} \cup
                           {poi_list[i]._id : i \in 1..Len(poi_list)} :
                        session' = Display([SidebarRun(session, city, tags,
                                                       budget, choice)
                                              EXCEPT !.shown = <<>>])
    /\ dbClient' = get_db_client
    /\ UNCHANGED <<db, mongoUri, mongoUp, call>>

\* the script runs again after st.rerun()
Rerun(s) == IF SidebarRaises THEN Crashed(s) ELSE Display(SidebarRerun(s))

\* get_geolocation() answers in a run of the script: the position is kept
\* for the session and the script runs again
Geolocate ==
    /\ session.front = "main" /\ session.pc = "idle"
    /\ ~session.start_location
    /\ session' = IF SidebarRaises THEN Crashed(session)
                  ELSE Rerun([session EXCEPT !.start_location = TRUE,
                                             !.shown = <<>>])
    /\ dbClient' = get_db_client
    /\ UNCHANGED <<db, mongoUri, mongoUp, call>>

\* the locals of an attempt that begins for the destination id
Attempt(s, id) ==
    [s EXCEPT !.pc = "lookup", !.shown = <<>>, !.request = id,
              !.dest_poi = NoPoi, !.response = NoResponse,
              !.route_data = JNull]

\* a variant that begins the attempt whatever is selected
ClickCreateUnguarded ==
    /\ session.front = "main"
    /\ session.pc = "idle" /\ call["c1"].op = "idle"
    /\ session' = IF SidebarRaises THEN Crashed(session)
                  ELSE Attempt(SidebarRerun(session),
                               SidebarRerun(session).selected_destination_id)
    /\ dbClient' = get_db_client
    /\ UNCHANGED <<db, mongoUri, mongoUp, call>>

\* if create_journey_button: the sidebar has run, then the two guards,
\* then the try block begins
ClickCreate ==
    /\ session.front = "main"
    /\ session.pc = "idle" /\ call["c1"].op = "idle"
    /\ session' =
         IF SidebarRaises THEN Crashed(session)
         ELSE LET s == SidebarRerun(session)
              IN  IF s.selected_destination_id = "None"
                  THEN Display([s EXCEPT !.shown =
                         <<"Please choose a destination from the sidebar.">>])
                  ELSE IF ~s.start_location
                  THEN Display([s EXCEPT !.shown =
                         <<"Could not determine your starting location.">>])
                  ELSE Attempt(s, s.selected_destination_id)
    /\ dbClient' = get_db_client
    /\ UNCHANGED <<db, mongoUri, mongoUp, call>>

\* a request reaches generate_journey, or the button of the page of
\* src/streamlit.py is clicked: the destination is any id, p0 one that no
\* document has
Submit ==
    /\ session.front # "main"
    /\ session.pc = "idle" /\ call["c1"].op = "idle"
    /\ \E id \in PoiIds \cup {"p0"} : session' = Attempt(session, id)
    /\ UNCHANGED <<db, mongoUri, mongoUp, dbClient, call>>

\* the attempt ends with the message m: the except branch of main.py and of
\* src/streamlit.py, the HTTPException of generate_journey
Ended(m) ==
    Display([session EXCEPT !.pc = "idle", !.shown = m,
                            !.dest_poi = NoPoi, !.response = NoResponse])

Failed(e) ==
    Ended(IF session.front = "api"
          THEN <<"500", "An internal server error occurred.">>
          ELSE <<ErrorOccurred, e>>)

\* dest_poi = knowledge_base.get_poi_by_id(...).  main.py subscripts the
\* result, and None raises TypeError; generate_journey answers 404 and the
\* page of src/streamlit.py shows that it found nothing.  The two await
\* the result: get_poi_by_id of app/knowledge_base.py is no coroutine and
\* awaiting its result raises TypeError, a revision that is one is
\* awaited.  The page then starts the routing and the generation together
\* (asyncio.gather).
HandlerLookup ==
    /\ session.pc = "lookup"
    /\ LET dest_poi == get_poi_by_id(session.request)
       IN  \E awaitable \in BOOLEAN :
             /\ session.front = "main" => awaitable
             /\ session' =
                  IF dest_poi.exc # "" THEN Failed(dest_poi.exc)
                  ELSE IF ~awaitable THEN Failed("TypeError")
                  ELSE IF dest_poi.val = NoPoi
                  THEN IF session.front = "main" THEN Failed("TypeError")
                       ELSE IF session.front = "api"
                       THEN Ended(<<"404", "Destination POI not found.">>)
                       ELSE Ended(<<"Could not find destination with ID: ",
                                    session.request>>)
                  ELSE [session EXCEPT !.dest_poi = dest_poi.val,
                          !.pc = IF session.front = "page" THEN "gather"
                                 ELSE "route"]
             /\ call' =
                  IF session.front = "page" /\ session'.pc = "gather"
                  THEN [call EXCEPT !["c1"] = GenCall("service", SessionUser)]
                  ELSE call
    /\ dbClient' = get_db_client
    /\ UNCHANGED <<db, mongoUri, mongoUp>>

\* the responses of the routing service of app/service.py
MaptilerResponses(end) ==
    { OrsResponse("RequestError", JNull),
      OrsResponse("HTTPStatusError", JNull),
      OrsResponse("ok", FeatureCollection(<< Feature(<<Segment("900", "600")>>,
                                                     <<Here, end>>) >>)) }

\* client.get(url): the routing service answers the request
HandlerRequest ==
    /\ \/ session.pc = "route"
       \/ session.pc = "gather" /\ session.response = NoResponse
    /\ \E response \in
           IF session.front = "main"
           THEN OrsResponses(session.dest_poi.coordinates)
           ELSE MaptilerResponses(session.dest_poi.coordinates) :
         session' = [session EXCEPT !.response = response,
                       !.pc = IF @ = "route" THEN "routed" ELSE @]
    /\ UNCHANGED <<db, mongoUri, mongoUp, dbClient, call>>

\* app/service.py: get_route_from_maptiler returns response.json() as it
\* is, and raises HTTPException for a failed request
get_route_from_maptiler(response) ==
    IF response.kind = "ok" THEN [exc |-> "", val |-> response.json]
    ELSE IF response.kind = "JSONDecodeError"
    THEN [exc |-> "JSONDecodeError", val |-> JNull]
    ELSE [exc |-> "HTTPException", val |-> JNull]

\* the routing function of the front end, applied to the response
Routed ==
    IF session.front = "main" THEN get_route_from_ors(session.response)
    ELSE get_route_from_maptiler(session.response)

\* a variant that publishes the route as soon as it is fetched
HandlerRouteStoring ==
    /\ session.pc = "routed"
    /\ session' =
         IF Routed.exc # "" THEN Failed(Routed.exc)
         ELSE [session EXCEPT !.pc = "call", !.route_data = Routed.val,
                              !.response = NoResponse,
                              !.journey_route_data = Routed.val,
                              !.route_request = session.request]
    /\ call' = call
    /\ UNCHANGED <<db, mongoUri, mongoUp, dbClient>>

\* route_data = services.get_route_from_ors(...): the route, or the
\* exception.  generate_journey passes an HTTPException on with its status;
\* under asyncio.gather the exception of the routing ends the attempt and
\* the generation is cancelled where it stands.
HandlerRoute ==
    /\ \/ session.pc = "routed"
       \/ /\ session.pc = "gather" /\ session.response # NoResponse
          /\ session.route_data = JNull
    /\ session' =
         IF Routed.exc # ""
         THEN IF session.front = "api" /\ Routed.exc = "HTTPException"
              THEN Ended(<<"503", "MapTiler">>)
              ELSE Failed(Routed.exc)
         ELSE [session EXCEPT !.route_data = Routed.val,
                              !.pc = IF @ = "routed" THEN "call" ELSE @]
    /\ call' = IF session.pc = "gather" /\ Routed.exc # ""
               THEN [call EXCEPT !["c1"] = Idle]
               ELSE call
    /\ UNCHANGED <<db, mongoUri, mongoUp, dbClient>>

\* narrative = services.generate_narrative_with_rag(request, dest_poi['name']).
\* The handler of main.py passes two arguments; generate_narrative_with_rag
\* of app/services.py declares five (llm, embedding_model, parser, request,
\* destination_name), so against that revision the call raises TypeError
\* before the body runs; against a revision taking the two arguments the
\* body runs.  generate_journey calls the function of app/service.py.
HandlerCall ==
    /\ session.pc = "call"
    /\ \/ /\ call' = [call EXCEPT !["c1"] =
                        GenCall(IF session.front = "main" THEN "services"
                                ELSE "service", SessionUser)]
          /\ session' = [session EXCEPT !.pc = "narrative"]
       \/ /\ session.front = "main"
          /\ session' = Failed("TypeError")
          /\ UNCHANGED call
    /\ UNCHANGED <<db, mongoUri, mongoUp, dbClient>>

\* st.session_state.journey_narrative = narrative;
\* st.session_state.journey_route_data = route_data; st.rerun().
\* The page of src/streamlit.py stores the two when both are truthy;
\* generate_journey returns them in a JourneyResponse.
HandlerStore ==
    /\ \/ session.pc = "narrative"
       \/ session.pc = "gather" /\ session.route_data # JNull
    /\ call["c1"].pc = "done"
    /\ LET s == [session EXCEPT !.pc = "idle", !.dest_poi = NoPoi,
                                !.response = NoResponse]
           stored == [s EXCEPT !.journey_narrative = call["c1"].result,
                               !.journey_route_data = session.route_data,
                               !.narrative_request = session.request,
                               !.route_request = session.request]
       IN  session' =
             IF session.front = "main" THEN Rerun(stored)
             ELSE IF session.front = "api"
             THEN [s EXCEPT !.shown = <<"200", "JourneyResponse">>]
             ELSE IF Truthy(session.route_data) THEN stored
             ELSE s
    /\ call' = [call EXCEPT !["c1"] = Idle]
    /\ dbClient' = get_db_client
    /\ UNCHANGED <<db, mongoUri, mongoUp>>

\* a variant that tells the failures apart and words them differently
HandlerExceptByClass ==
    /\ session.pc \in {"narrative", "gather"} /\ call["c1"].pc = "raised"
    /\ session' =
         Ended(IF call["c1"].exc = "OutputParserException"
               THEN <<"Try a different query.">>
               ELSE <<"Service unavailable.">>)
    /\ call' = [call EXCEPT !["c1"] = Idle]
    /\ UNCHANGED <<db, mongoUri, mongoUp, dbClient>>

\* a variant that forgets the narrative shown when an attempt fails
HandlerExceptClearing ==
    /\ session.pc \in {"narrative", "gather"} /\ call["c1"].pc = "raised"
    /\ session' = [Failed(call["c1"].exc) EXCEPT
                     !.journey_narrative = NoNarrative, !.drawn = "nothing"]
    /\ call' = [call EXCEPT !["c1"] = Idle]
    /\ UNCHANGED <<db, mongoUri, mongoUp, dbClient>>

\* except Exception as e: st.error(...)
HandlerExcept ==
    /\ session.pc \in {"narrative", "gather"} /\ call["c1"].pc = "raised"
    /\ session' = Failed(call["c1"].exc)
    /\ call' = [call EXCEPT !["c1"] = Idle]
    /\ UNCHANGED <<db, mongoUri, mongoUp, dbClient>>

InitSession ==
    /\ db \in [Users -> InitDocs] /\ db["u2"] = NoDoc
    /\ mongoUri \in BOOLEAN
    /\ mongoUp \in BOOLEAN
    /\ dbClient = "uncached"
    /\ call = [c \in Calls |-> Idle]
    /\ session = NewSession

NextSession ==
    \/ Sidebar
    \/ Geolocate
    \/ ClickCreate
    \/ HandlerLookup
    \/ HandlerRequest
    \/ HandlerRoute
    \/ HandlerCall
    \/ GenPrefs("c1")
    \/ GenEmbed("c1")
    \/ GenSearch("c1")
    \/ GenInvoke("c1")
    \/ HandlerStore
    \/ HandlerExcept
    \/ MongoFlip

SpecSession == InitSession /\ [][NextSession]_vars

(***************************************************************************)
(* The three front ends side by side, one session of each.                 *)
(***************************************************************************)
InitJourney ==
    /\ db = [u \in Users |-> NoDoc]
    /\ mongoUri = TRUE
    /\ mongoUp \in BOOLEAN
    /\ dbClient = "uncached"
    /\ call = [c \in Calls |-> Idle]
    /\ \E front \in Fronts :
         session = [NewSession EXCEPT !.front = front,
                                      !.start_location = front # "main"]

\* one index and two answers of the oracle are enough to tell the order of
\* the calls
JourneyScope ==
    /\ call["c1"].kb \in {NoKb, PairKb}
    /\ call["c1"].ai_response \in
         {<<>>, Dump(NarrativeObj(X, X, X, X)), <<"Sorry,", WS, "no", WS, "story">>}

NextJourney ==
    \/ Submit
    \/ Sidebar
    \/ Geolocate
    \/ ClickCreate
    \/ HandlerLookup
    \/ HandlerRequest
    \/ HandlerRoute
    \/ HandlerCall
    \/ GenPrefs("c1")
    \/ GenEmbed("c1")
    \/ GenSearch("c1") /\ JourneyScope'
    \/ GenInvoke("c1") /\ JourneyScope'
    \/ HandlerStore
    \/ HandlerExcept
    \/ MongoFlip

SpecJourney == InitJourney /\ [][NextJourney]_vars

(***************************************************************************)
(* main.py: the chat tab.  A run of the script is stopped by Streamlit at  *)
(* its next st call when the user acts on a widget while it runs; the      *)
(* exception that stops it is no Exception and passes the except branch.   *)
(***************************************************************************)
MaxMessages == 5

CreateFirst ==
    "I can only answer questions about a journey after you've created one."

ErrorMessage(e) == <<"I'm sorry, I encountered an error: ", e>>

Said(role, content) == [role |-> role, content |-> content]

\* if prompt := st.chat_input(...): the sidebar and the journey tab have
\* run, the user message is appended and displayed
ChatInput ==
    /\ session.front = "main" /\ session.pc = "idle"
    /\ Len(session.messages) < MaxMessages
    /\ session' =
         IF SidebarRaises THEN Crashed(session)
         ELSE LET s == Display([SidebarRerun(session) EXCEPT !.shown = <<>>])
              IN  IF s.drawn \in {"TypeError", "PyMongoError"} THEN s
                  ELSE [s EXCEPT !.pc = "chat",
                                 !.messages = Append(@, Said("user", "question"))]
    /\ dbClient' = get_db_client
    /\ UNCHANGED <<db, mongoUri, mongoUp, call>>

\* the assistant message the try block ends with when e was raised in it
ErrorReply(e) ==
    [session EXCEPT !.pc = "idle",
                    !.messages = Append(@, Said("assistant", ErrorMessage(e)))]

\* a variant that calls the oracle without a journey
ChatReplyAlways ==
    /\ session.pc = "chat"
    /\ session' = [session EXCEPT !.pc = "oracle"]
    /\ dbClient' = get_db_client
    /\ UNCHANGED <<db, mongoUri, mongoUp, call>>

\* the try block up to llm.invoke.  The handler calls
\* generate_chat_response by keyword without llm, which app/services.py
\* declares as its first parameter: against that revision the call raises
\* TypeError, against one that takes the five keywords the body runs.
ChatReply ==
    /\ session.pc = "chat"
    /\ \E accepted \in BOOLEAN :
         session' =
           IF session.journey_narrative = NoNarrative
           THEN [session EXCEPT !.pc = "idle",
                   !.messages = Append(@, Said("assistant", CreateFirst))]
           ELSE LET dest_poi == get_poi_by_id(session.selected_destination_id)
                    user_prefs == get_user_preferences(SessionUser)
                IN  IF dest_poi.exc # "" THEN ErrorReply(dest_poi.exc)
                    ELSE IF dest_poi.val = NoPoi THEN ErrorReply("TypeError")
                    ELSE IF ~accepted THEN ErrorReply("TypeError")
                    ELSE IF user_prefs.exc # "" THEN ErrorReply(user_prefs.exc)
                    ELSE [session EXCEPT !.pc = "oracle"]
    /\ dbClient' = get_db_client
    /\ UNCHANGED <<db, mongoUri, mongoUp, call>>

\* ai_response = llm.invoke(prompt): the answer is displayed and appended,
\* or the exception of the oracle is
ChatOracle ==
    /\ session.pc = "oracle"
    /\ \/ session' = [session EXCEPT !.pc = "idle",
                        !.messages = Append(@, Said("assistant", "answer"))]
       \/ session' = ErrorReply("LLMError")
    /\ UNCHANGED <<db, mongoUri, mongoUp, dbClient, call>>

\* the user acts on a widget while the spinner turns: the run is stopped
\* at st.markdown or st.error, before the assistant message is appended
Interrupt ==
    /\ session.pc \in {"chat", "oracle"}
    /\ session' = [session EXCEPT !.pc = "idle"]
    /\ UNCHANGED <<db, mongoUri, mongoUp, dbClient, call>>

\* a session before its first journey, or one that shows the journey to
\* the destination selected
InitChat ==
    /\ db = [u \in Users |-> NoDoc]
    /\ mongoUri = TRUE
    /\ mongoUp \in BOOLEAN
    /\ dbClient = "uncached"
    /\ call = [c \in Calls |-> Idle]
    /\ \/ session = NewSession
       \/ \E id \in PoiIds :
            \E response \in OrsResponses(Here) :
              /\ get_route_from_ors(response).exc = ""
              /\ session =
                   [NewSession EXCEPT
                      !.selected_destination_id = id,
                      !.start_location = TRUE,
                      !.journey_narrative =
                          [title |-> X, location_awareness |-> X,
                           narrative |-> X, fun_fact |-> X],
                      !.journey_route_data = get_route_from_ors(response).val,
                      !.narrative_request = id, !.route_request = id,
                      !.drawn = id]

NextChat ==
    \/ ChatInput
    \/ ChatReply
    \/ ChatOracle
    \/ Interrupt
    \/ Sidebar
    \/ MongoFlip

SpecChat == InitChat /\ [][NextChat]_vars

(***************************************************************************)
(* Properties.                                                             *)
(***************************************************************************)
Has(trace, e) == \E i \in 1..Len(trace) : trace[i] = e

Finished(c) == call[c].pc \in {"done", "raised"}

\* the oracle has answered the call
Answered(c) == call[c].ai_response # <<>>

\* C1: a reflection whose oracle answer is not parseable JSON, or is a JSON
\* object without the key likes or without the key dislikes, performs no
\* write to the store and leaves the stored profile of the user unchanged.
C1_InvalidAnswerWritesNothing ==
    \A c \in Calls :
      LET j == json_loads(call[c].ai_response)
      IN  /\ call[c].op = "refl" /\ Finished(c) /\ Answered(c)
          /\ \/ ~j.ok
             \/ /\ j.val.t = "obj"
                /\ ~HasKey(j.val, LIKES) \/ ~HasKey(j.val, DISLIKES)
          => /\ ~call[c].wrote
             /\ db[call[c].user_id] = call[c].doc0

\* the answer is a JSON object with exactly the keys likes and dislikes, each
\* a list of strings
IsProfileObject(v) ==
    /\ v.t = "obj"
    /\ Len(v.keys) = 2 /\ HasKey(v, LIKES) /\ HasKey(v, DISLIKES)
    /\ IsStrList(GetKey(v, LIKES)) /\ IsStrList(GetKey(v, DISLIKES))

ProfileOf(v) ==
    [likes |-> StrList(GetKey(v, LIKES)),
     dislikes |-> StrList(GetKey(v, DISLIKES))]

\* C2 as claimed: whenever the oracle answer is a JSON object of the shape
\* {likes: [string], dislikes: [string]}, the stored profile of the user
\* equals exactly that object once the reflection has returned.
C2_StoredEqualsAnswer ==
    \A c \in Calls :
      LET j == json_loads(call[c].ai_response)
      IN  /\ call[c].op = "refl" /\ call[c].pc = "done" /\ Answered(c)
          /\ j.ok /\ IsProfileObject(j.val)
          => db[call[c].user_id] = PrefsDoc(ProfileOf(j.val))

\* what app/services.py keeps of a string: the fence markers are deleted from
\* the whole text before it is parsed, inside strings too
Kept(impl, p) ==
    IF impl = "services"
    THEN [likes |-> [i \in 1..Len(p.likes) |-> Remove(p.likes[i], <<FENCE>>)],
          dislikes |->
              [i \in 1..Len(p.dislikes) |-> Remove(p.dislikes[i], <<FENCE>>)]]
    ELSE p

\* C2 as amended: for an answer of that shape, when the reflection has
\* returned and update_one was executed (the database client was available
\* and the server answered), the stored document of the user is exactly the
\* answered profile, whatever it held before and whether or not it existed
\* (in app/services.py with the fence markers deleted from its strings);
\* when update_one was not executed the document is the one the call found.
C2_StoredEqualsAnswerWhenWritten ==
    \A c \in Calls :
      LET j == json_loads(call[c].ai_response)
      IN  /\ call[c].op = "refl" /\ call[c].pc = "done" /\ Answered(c)
          /\ j.ok /\ IsProfileObject(j.val)
          => /\ Has(call[c].trace, "update")
             /\ db[call[c].user_id] =
                  IF call[c].wrote
                  THEN PrefsDoc(Kept(call[c].impl, ProfileOf(j.val)))
                  ELSE call[c].doc0

\* C2 witness: a reflection for a user without a document has returned and
\* the answered profile was written, creating the document
C2_Witness ==
    \E c \in Calls :
      /\ call[c].op = "refl" /\ call[c].pc = "done" /\ call[c].wrote
      /\ call[c].doc0 = NoDoc
      /\ call[c].ai_response = Dump(PrefsObj(<<TopicA>>, <<>>))
      /\ db[call[c].user_id] = PrefsDoc([likes |-> <<TopicA>>, dislikes |-> <<>>])

\* C3: a call of generate_narrative_with_rag never fails because of the
\* preference read: a read that fails yields the empty profile.
C3_PreferenceReadNeverRaises ==
    \A c \in Calls :
      call[c].op = "gen" /\ call[c].trace = <<"prefs">>
      => call[c].pc # "raised"

\* C4: for a user without a document, or with a document without the field
\* preferences, the preference read of generate_narrative_with_rag raises
\* nothing and yields the empty profile, and the prompt carries the empty
\* profile as it does for a user whose stored profile is empty.
C4_AbsentProfileReadsAsEmpty ==
    \A c \in Calls :
      /\ call[c].op = "gen" /\ Has(call[c].trace, "prefs")
      /\ call[c].doc0 \in {NoDoc, BareDoc}
      => /\ call[c].exc # "PyMongoError"
         /\ call[c].user_prefs = EmptyPrefs
         /\ Has(call[c].trace, "search")
              => call[c].prompt.preferences = EmptyPrefs

\* C5: when the embedding call fails, generate_narrative_with_rag ends with
\* that error raised to its caller: the index is not searched, the oracle is
\* not invoked and no narrative is returned.
C5_EmbeddingFailureIsFatal ==
    \A c \in Calls :
      call[c].op = "gen" /\ call[c].exc = "EmbeddingError"
      => /\ call[c].pc = "raised"
         /\ call[c].trace = <<"prefs", "embed">>
         /\ call[c].result = NoNarrative
         /\ call[c].prompt = NoPrompt

\* C5 witness: a generation has ended with the embedding error
C5_Witness ==
    \E c \in Calls :
      call[c].op = "gen" /\ call[c].pc = "raised"
      /\ call[c].exc = "EmbeddingError"

IndexUnavailable(kb) == kb.faiss_index = "None" \/ kb.texts = <<>>

\* C6 as claimed: when the index failed to load or the chunk list is empty,
\* the context and the context block of the prompt are the empty string.
C6_UnavailableIsEmptyContext ==
    \A c \in Calls :
      /\ call[c].op = "gen" /\ Has(call[c].trace, "search")
      /\ IndexUnavailable(call[c].kb)
      => call[c].context = <<>> /\ call[c].prompt.context = <<>>

\* C6 as amended: when the index failed to load or the chunk list is empty,
\* the search raises nothing and yields the fixed sentence "Knowledge base is
\* currently unavailable.", which the prompt carries as its context block; a
\* search of an available index never yields that sentence, so the two cases
\* differ in the prompt.
C6_UnavailableIsSentinel ==
    \A c \in Calls :
      call[c].op = "gen" /\ Has(call[c].trace, "search")
      => /\ IndexUnavailable(call[c].kb)
            => /\ call[c].context = Unavailable
               /\ call[c].prompt.context = Unavailable
               /\ call[c].exc \in {"", "LLMError", "OutputParserException"}
         /\ ~IndexUnavailable(call[c].kb)
            => call[c].prompt.context # Unavailable

\* C6 witness: a prompt was built after the index had failed to load
C6_Witness ==
    \E c \in Calls :
      /\ call[c].op = "gen" /\ call[c].pc = "invoke"
      /\ call[c].kb.faiss_index = "None" /\ call[c].kb.texts # <<>>
      /\ call[c].prompt.context = Unavailable

\* C7: every narrative that generate_narrative_with_rag returns has a
\* non-empty title, narrative, fun_fact and location_awareness.
C7_ReturnedNarrativeIsComplete ==
    \A c \in Calls :
      call[c].op = "gen" /\ call[c].pc = "done"
      => /\ call[c].result.title # <<>>
         /\ call[c].result.narrative # <<>>
         /\ call[c].result.fun_fact # <<>>
         /\ call[c].result.location_awareness # <<>>

\* C8: whatever the oracle answers, no exception of the parsing or of the
\* validation leaves reflect_and_update_preferences.
C8_ReflectionAbsorbsAnswerErrors ==
    \A c \in Calls :
      /\ call[c].op = "refl" /\ Answered(c)
      /\ ~Has(call[c].trace, "update")
      => call[c].pc # "raised"

RECURSIVE Occurs(_, _)
Occurs(s, pat) ==
    IF Len(s) < Len(pat) THEN FALSE
    ELSE StartsWith(s, pat) \/ Occurs(Tail(s), pat)

NoMatch(kb) ==
    /\ ~IndexUnavailable(kb)
    /\ \A n \in 1..Len(kb.indices) : kb.indices[n] = -1

\* C9: when the index returns no matching chunk, the prompt of
\* generate_narrative_with_rag (app/services.py) names the destination,
\* carries the fallback instruction and holds no chunk text, and a
\* well-formed answer is returned as the narrative.
C9_NoMatchPromptHasNoChunk ==
    \A c \in Calls :
      /\ call[c].op = "gen" /\ call[c].impl = "services"
      /\ Has(call[c].trace, "search") /\ NoMatch(call[c].kb)
      => /\ call[c].prompt.destination_name = Destination
         /\ call[c].prompt.fallback_plan
         /\ \A i \in 1..Len(call[c].kb.texts) :
              ~Occurs(call[c].prompt.context, call[c].kb.texts[i])
         /\ call[c].ai_response = Dump(NarrativeObj(X, X, X, X))
              => call[c].pc = "done"

IsPrefix(s, t) == Len(s) <= Len(t) /\ SubSeq(t, 1, Len(s)) = s

\* C10: within one call of generate_narrative_with_rag the external calls
\* are made in the order preference read, embedding, index search, oracle:
\* the search starts after the embedding has answered and the oracle is
\* invoked after the read and the search have answered; the prompt holds
\* the profile the read returned and the context the search returned.
C10_StepsInOrder ==
    \A c \in Calls :
      call[c].op = "gen"
      => /\ IsPrefix(call[c].trace, <<"prefs", "embed", "search", "invoke">>)
         /\ call[c].pc = "search" => call[c].trace = <<"prefs", "embed">>
         /\ call[c].pc = "invoke"
              => call[c].trace = <<"prefs", "embed", "search">>
         /\ Has(call[c].trace, "search")
              => /\ call[c].prompt.preferences = call[c].user_prefs
                 /\ call[c].prompt.context = call[c].context
                 /\ call[c].prompt.query = Query
         /\ Has(call[c].trace, "embed")
              => call[c].user_prefs \in {EmptyPrefs, call[c].doc0.prefs}

\* C10 witness: a generation has returned after all four calls, with a stored
\* profile and a retrieved chunk in its prompt
C10_Witness ==
    \E c \in Calls :
      /\ call[c].op = "gen" /\ call[c].pc = "done"
      /\ call[c].trace = <<"prefs", "embed", "search", "invoke">>
      /\ call[c].prompt.preferences.likes = <<TopicB>>
      /\ Occurs(call[c].prompt.context, Corpus(1)[1])

RECURSIVE Count(_, _)
Count(trace, e) ==
    IF trace = <<>> THEN 0
    ELSE (IF Head(trace) = e THEN 1 ELSE 0) + Count(Tail(trace), e)

StoredProfile(doc) == IF doc.exists /\ doc.hasPrefs THEN doc.prefs ELSE EmptyPrefs

\* the call c has just made the external call e
Did(c, e) == call'[c].trace = Append(call[c].trace, e)

\* C12: with two calls in flight, the preference read of a generation
\* returns the profile stored for its own user_id at that moment, the
\* prompt it builds carries that profile and no other, and no step of a
\* generation changes the store.
C12_GenerationsReadOwnProfile ==
    /\ [][\A c \in Calls :
            call[c].op = "gen" /\ call'[c] # call[c]
            => /\ db' = db
               /\ Did(c, "prefs")
                    => call'[c].user_prefs = StoredProfile(db[call[c].user_id])
               /\ ~Did(c, "prefs") /\ call'[c].op = "gen"
                    => call'[c].user_prefs = call[c].user_prefs]_vars
    /\ [](\A c \in Calls :
            call[c].op = "gen" /\ Has(call[c].trace, "search")
            => call[c].prompt.preferences = call[c].user_prefs)

\* C12 witness: two generations for different users are in flight, each
\* with its prompt built, one carrying the stored likes of its user and the
\* other the empty profile of a user without a document
C12_Witness ==
    /\ call["c1"].op = "gen" /\ call["c2"].op = "gen"
    /\ call["c1"].user_id = "u2" /\ call["c2"].user_id = "u1"
    /\ call["c1"].pc = "invoke" /\ call["c2"].pc = "invoke"
    /\ db["u1"] = NoDoc /\ db["u2"] = PrefsDoc([likes |-> <<TopicB>>, dislikes |-> <<>>])
    /\ call["c1"].prompt.preferences.likes = <<TopicB>>
    /\ call["c2"].prompt.preferences = EmptyPrefs

\* C13: with two reflections in flight, the update of a reflection whose
\* answer validated stores exactly the validated profile of that call,
\* whatever the store held and whatever the call had read before; so when
\* two reflections for the same user have both written, the stored profile
\* is the validated answer of one of them, the one that wrote last, and
\* never a mixture.
C13_LastWriteWins ==
    /\ [][\A c \in Calls :
            call[c].op = "refl" /\ Did(c, "update")
            => /\ call'[c].wrote
               /\ db'[call[c].user_id] = PrefsDoc(call[c].validated_prefs)]_vars
    /\ [](\A c \in Calls :
            call[c].op = "refl" /\ call[c].pc = "update"
            => call[c].validated_prefs
                 = ProfileOf(json_loads(call[c].ai_response).val))
    /\ [](\A c, d \in Calls :
            /\ c # d /\ call[c].op = "refl" /\ call[d].op = "refl"
            /\ call[c].user_id = call[d].user_id
            /\ call[c].wrote /\ call[d].wrote
            => db[call[c].user_id] \in {PrefsDoc(call[c].validated_prefs),
                                        PrefsDoc(call[d].validated_prefs)})

\* C13 witness: two reflections for the same user both read the stored
\* profile, then both wrote different validated answers; the store holds
\* the answer of the one that wrote last, which was written over a profile
\* that call had not read
C13_Witness ==
    /\ call["c1"].op = "refl" /\ call["c2"].op = "refl"
    /\ call["c1"].user_id = "u1" /\ call["c2"].user_id = "u1"
    /\ call["c1"].pc = "done" /\ call["c2"].pc = "done"
    /\ call["c1"].wrote /\ call["c2"].wrote
    /\ call["c1"].user_prefs.likes = <<TopicB>>
    /\ call["c2"].user_prefs.likes = <<TopicB>>
    /\ call["c1"].validated_prefs # call["c2"].validated_prefs
    /\ db["u1"] = PrefsDoc(call["c1"].validated_prefs)

\* C16: a reflection calls get_user_preferences once, before the oracle, and
\* update_user_preferences at most once, both with its own user_id: the
\* read returns the profile stored for that user, and no step of the
\* reflection changes the document of any other user, whatever other
\* reflection is in flight.
C16_ReflectionTouchesOwnDocument ==
    /\ [][\A c \in Calls :
            call[c].op = "refl" /\ call'[c] # call[c]
            => /\ \A u \in Users \ {call[c].user_id} : db'[u] = db[u]
               /\ ~Did(c, "update") => db' = db
               /\ Did(c, "prefs")
                    => call'[c].user_prefs = StoredProfile(db[call[c].user_id])]_vars
    /\ [](\A c \in Calls :
            call[c].op = "refl"
            => /\ Count(call[c].trace, "prefs")
                    = (IF call[c].pc = "prefs" THEN 0 ELSE 1)
               /\ Count(call[c].trace, "update") <= 1
               /\ call[c].wrote => Count(call[c].trace, "update") = 1)

\* C16 witness: a reflection for one user has written while a reflection
\* for the other user is in flight, and the document of the other user is
\* the one it was
C16_Witness ==
    /\ call["c1"].op = "refl" /\ call["c1"].user_id = "u1"
    /\ call["c1"].pc = "done" /\ call["c1"].wrote
    /\ call["c2"].op = "refl" /\ call["c2"].user_id = "u2"
    /\ call["c2"].pc = "update"
    /\ db["u2"] = call["c2"].doc0 /\ db["u2"].exists
    /\ db["u1"] = PrefsDoc(call["c1"].validated_prefs)
    /\ db["u1"] # db["u2"]

\* C17: a generation calls get_user_preferences once and no step of it
\* changes the store: the store is the same after the call as before it,
\* whether the call returns or raises.
C17_GenerationLeavesStore ==
    /\ [][\A c \in Calls :
            call[c].op = "gen" /\ call'[c] # call[c] => db' = db]_vars
    /\ [](\A c \in Calls :
            call[c].op = "gen"
            => /\ Count(call[c].trace, "prefs")
                    = (IF call[c].pc = "prefs" THEN 0 ELSE 1)
               /\ ~Has(call[c].trace, "update")
               /\ ~call[c].wrote
               /\ db[call[c].user_id] = call[c].doc0)

\* C17 witness: a generation for a user without a document has returned a
\* narrative with the store reachable, and the user still has no document
C17_Witness ==
    \E c \in Calls :
      /\ call[c].op = "gen" /\ call[c].pc = "done"
      /\ dbClient = "client" /\ mongoUp
      /\ call[c].doc0 = NoDoc /\ db[call[c].user_id] = NoDoc

HasFourFields(v) ==
    /\ v.t = "obj"
    /\ \A i \in 1..Len(NarrativeFields) :
         HasKey(v, NarrativeFields[i]) /\ GetKey(v, NarrativeFields[i]).t = "str"

\* the outermost braces of s, as parser.parse cuts them out
Braces(s) ==
    SubSeq(s, FirstIndex(s, "{", 1), LastIndex(s, "}", Len(s)))

\* C15: a generation either returns a narrative whose four fields are all
\* taken from the answer of the oracle, or raises and returns nothing; and
\* journey_narrative and journey_route_data of the session change only
\* together, when the generation has returned: an attempt that fails at the
\* lookup, the routing or anywhere in the generation leaves both as they
\* were.
C15_NoPartialJourney ==
    /\ [](\A c \in Calls :
            call[c].op = "gen"
            => /\ call[c].pc # "done" => call[c].result = NoNarrative
               /\ call[c].pc = "done"
                    => LET j == json_loads(Braces(call[c].ai_response))
                       IN  /\ j.ok /\ HasFourFields(j.val)
                           /\ \A i \in 1..Len(NarrativeFields) :
                                GetKey(j.val, NarrativeFields[i]).s
                                  = call[c].result[NarrativeFields[i][1]])
    /\ [][\/ /\ session'.journey_narrative = session.journey_narrative
             /\ session'.journey_route_data = session.journey_route_data
          \/ /\ session.pc = "narrative" /\ call["c1"].pc = "done"
             /\ session'.journey_narrative = call["c1"].result
             /\ session'.journey_route_data = session.route_data
             /\ session.route_data # JNull]_vars

\* the path of the route ends at the position of the destination id
LeadsTo(route, id) ==
    /\ route.t = "obj" /\ HasKey(route, "points")
    /\ LET points == GetKey(route, "points").kids
       IN  /\ points # <<>>
           /\ \E i \in 1..Len(POIS) :
                POIS[i]._id = id /\ points[Len(points)] = POIS[i].coordinates

\* C15 witness: a session that shows the journey of an earlier attempt has
\* had a later attempt fail in the generation after another route was
\* fetched, and still holds the earlier narrative and route
C15_Witness ==
    /\ session.pc = "idle"
    /\ session.shown = <<ErrorOccurred, "EmbeddingError">>
    /\ session.journey_narrative # NoNarrative
    /\ LeadsTo(session.journey_route_data, "p1")
    /\ LeadsTo(session.route_data, "p2")

\* str.lower(), over the letters the answers are written with
Lower(s) == [i \in 1..Len(s) |-> IF s[i] = "A" THEN "a" ELSE s[i]]

\* the entries of the list are lowercase and differ from one another
Normalised(list) ==
    /\ \A i \in 1..Len(list) : list[i] = Lower(list[i])
    /\ \A i, j \in 1..Len(list) : i # j => Lower(list[i]) # Lower(list[j])

\* C18: the likes and the dislikes of every stored profile are lowercase
\* and hold no entry twice under case normalisation.
C18_StoredListsNormalised ==
    \A u \in Users :
      db[u].hasPrefs
      => Normalised(db[u].prefs.likes) /\ Normalised(db[u].prefs.dislikes)

\* C19: every document a reflection has written, and every stored profile,
\* has a preferences object with exactly the keys likes and dislikes, also
\* when the answer of the oracle held another key or lacked one of the two.
C19_StoredKeysAreLikesAndDislikes ==
    /\ \A u \in Users :
         db[u].hasPrefs => DOMAIN db[u].prefs = {"likes", "dislikes"}
    /\ \A c \in Calls :
         call[c].op = "refl" /\ call[c].wrote
         => /\ db[call[c].user_id].exists /\ db[call[c].user_id].hasPrefs
            /\ DOMAIN call[c].validated_prefs = {"likes", "dislikes"}

\* C19 witness: a reflection whose answer held a third key has written
C19_Witness ==
    \E c \in Calls :
      /\ call[c].op = "refl" /\ call[c].pc = "done" /\ call[c].wrote
      /\ LET j == json_loads(call[c].ai_response)
         IN  j.ok /\ j.val.t = "obj" /\ HasKey(j.val, <<"note">>)
      /\ db[call[c].user_id].prefs = [likes |-> <<TopicA>>, dislikes |-> <<>>]

\* the labels of the row that name a position of the index
Returned(indices) == SelectSeq(indices, LAMBDA i : i >= 0)

\* C20: when the index is available the context is the chunks at the
\* positions the index returned, in the order returned, joined by the
\* delimiter; the search of generate_narrative_with_rag asks for K = 5.
C20_ContextIsReturnedChunksInOrder ==
    \A c \in Calls :
      /\ call[c].op = "gen" /\ Has(call[c].trace, "search")
      /\ ~IndexUnavailable(call[c].kb)
      => /\ Len(call[c].kb.indices) = K
         /\ call[c].context =
              Join([n \in 1..Len(Returned(call[c].kb.indices)) |->
                      call[c].kb.texts[Returned(call[c].kb.indices)[n] + 1]], 1)

\* the chunks of a context, split at the delimiter
RECURSIVE Chunks(_)
Chunks(context) ==
    IF context = <<>> THEN <<>>
    ELSE LET d == FirstIndex(context, DELIM, 1)
         IN  IF d = 0 THEN <<context>>
             ELSE <<SubSeq(context, 1, d - 1)>>
                    \o Chunks(SubSeq(context, d + 1, Len(context)))

\* C21: when the index holds fewer entries than k, the context holds at
\* most as many chunks as the index has entries, one for each position the
\* index returned and no chunk twice.
C21_NoPaddingBelowK ==
    \A c \in Calls :
      /\ call[c].op = "gen" /\ Has(call[c].trace, "search")
      /\ ~IndexUnavailable(call[c].kb)
      /\ Len(call[c].kb.texts) < K
      => LET chunks == Chunks(call[c].context)
         IN  /\ Len(chunks) = Len(Returned(call[c].kb.indices))
             /\ Len(chunks) <= Len(call[c].kb.texts)
             /\ \A i, j \in 1..Len(chunks) : i # j => chunks[i] # chunks[j]

\* C22: while get_db_client gives None, no operation of knowledge_base
\* raises: get_pois_by_city and get_unique_budgets_by_city return the empty
\* list and get_unique_tags_by_city no tag, whatever the city and the
\* filters, get_poi_by_id returns None, get_user_preferences returns the
\* empty profile, update_user_preferences returns without a write, and no
\* run of the page has ended in an exception of the store.
C22_MissingClientDegrades ==
    get_db_client = "none"
    => /\ \A city \in Cities :
            /\ get_unique_tags_by_city(city) = [exc |-> "", val |-> {}]
            /\ get_unique_budgets_by_city(city) = [exc |-> "", val |-> <<>>]
            /\ \A tags \in SUBSET Tags :
                 \A budget \in {"Any"} \cup {Budgets[i] : i \in 1..Len(Budgets)} :
                   get_pois_by_city(city, tags, budget)
                     = [exc |-> "", val |-> <<>>]
       /\ \A id \in PoiIds \cup {"None", "p0"} :
            get_poi_by_id(id) = [exc |-> "", val |-> NoPoi]
       /\ \A u \in Users :
            /\ get_user_preferences(u) = [exc |-> "", prefs |-> EmptyPrefs]
            /\ \A p \in AnswerProfiles :
                 LET r == update_user_preferences(u, p)
                 IN  r.exc = "" /\ ~r.wrote /\ r.db = db
       /\ session.drawn # "PyMongoError"
       /\ session.selected_destination_id # "None" => dbClient = "uncached"

\* C22 witness: the page has run without a client for the city Enugu and a
\* click on Create My Journey found no destination selected
C22_Witness ==
    /\ dbClient = "none"
    /\ session.selected_city = "Enugu"
    /\ session.selected_destination_id = "None"
    /\ session.shown = <<"Please choose a destination from the sidebar.">>

\* C24: once get_db_client has returned None it returns None ever after,
\* also when MONGO_URI is set and the server answers again: from then on no
\* step changes the store, no call has written, and a preference read that
\* a call makes gives it the empty profile without raising.
C24_MissingClientIsKept ==
    [][dbClient = "none"
       => /\ dbClient' = "none"
          /\ get_db_client' = "none"
          /\ db' = db
          /\ \A c \in Calls :
               /\ ~call'[c].wrote
               /\ Did(c, "prefs")
                    => call'[c].user_prefs = EmptyPrefs
                       /\ call'[c].pc # "raised"]_vars

\* C24 witness: the client is missing although the server is reachable now,
\* a user has a stored profile, and a reflection has gone through its
\* update without writing
C24_Witness ==
    /\ dbClient = "none" /\ mongoUri /\ mongoUp
    /\ \E c \in Calls :
         /\ call[c].op = "refl" /\ call[c].pc = "done"
         /\ Has(call[c].trace, "update") /\ ~call[c].wrote
         /\ db[call[c].user_id].hasPrefs
         /\ call[c].user_prefs = EmptyPrefs

\* C25: a reflection shows the notice that the preferences have been
\* updated only when its call has written the validated profile to the
\* store.
C25_ToastOnlyAfterWrite ==
    \A c \in Calls :
      call[c].op = "refl" /\ Has(call[c].notices, "toast") => call[c].wrote

\* the response has a first feature with a first segment that has a
\* duration and a distance, and with a geometry that has coordinates
HasFirstSegment(response) ==
    /\ response.kind = "ok"
    /\ response.json.t = "obj" /\ HasKey(response.json, "features")
    /\ LET features == GetKey(response.json, "features")
       IN  /\ features.t = "arr" /\ Len(features.kids) >= 1
           /\ LET feature == features.kids[1]
              IN  /\ feature.t = "obj"
                  /\ HasKey(feature, "properties") /\ HasKey(feature, "geometry")
                  /\ HasKey(GetKey(feature, "geometry"), "coordinates")
                  /\ HasKey(GetKey(feature, "properties"), "segments")
                  /\ LET segments == GetKey(GetKey(feature, "properties"), "segments")
                     IN  /\ segments.t = "arr" /\ Len(segments.kids) >= 1
                         /\ HasKey(segments.kids[1], "duration")
                         /\ HasKey(segments.kids[1], "distance")

FirstFeature(response) == GetKey(response.json, "features").kids[1]

FirstSegment(response) ==
    GetKey(GetKey(FirstFeature(response), "properties"), "segments").kids[1]

\* C23: when the handler of main.py applies get_route_from_ors to the
\* response of the routing service, either the response has the expected
\* structure and the route is the object with exactly the keys duration,
\* distance and points, holding the duration and the distance of the first
\* segment of the first feature and the coordinates of that feature, or an
\* exception ends the attempt and no route object exists, neither as the
\* local of the handler nor in the session: so for a network error, for a
\* failure status, for a body that is no JSON and for a JSON body without
\* the features, the segments, the geometry or one of the two numbers.
C23_RouteIsExactOrRaised ==
    [][session.front = "main" /\ session.pc = "routed" /\ session' # session
       => \/ /\ HasFirstSegment(session.response)
             /\ session'.pc = "call"
             /\ session'.route_data =
                  JObj(<<"duration", "distance", "points">>,
                       << GetKey(FirstSegment(session.response), "duration"),
                          GetKey(FirstSegment(session.response), "distance"),
                          GetKey(GetKey(FirstFeature(session.response),
                                        "geometry"), "coordinates") >>)
             /\ session'.journey_route_data = session.journey_route_data
          \/ /\ ~HasFirstSegment(session.response)
             /\ session'.pc = "idle"
             /\ session'.route_data = JNull
             /\ session'.journey_route_data = session.journey_route_data
             /\ Len(session'.shown) = 2 /\ session'.shown[1] = ErrorOccurred
             /\ session.response.kind = "RequestError"
                  => session'.shown[2] = "Network error calling OpenRouteService"
             /\ session.response.kind = "HTTPStatusError"
                  => session'.shown[2] = "API error from OpenRouteService"]_vars

\* C23 witness: the response held two features, the first with two
\* segments, and the route of the handler has the numbers of the first
\* segment and the path of the first feature to the Central Library
C23_Witness ==
    /\ session.pc = "call"
    /\ Len(GetKey(session.response.json, "features").kids) = 2
    /\ session.route_data =
         JObj(<<"duration", "distance", "points">>,
              << JNumber("600"), JNumber("900"),
                 JArr(<<Here, Position("7.41", "6.86")>>) >>)

\* the session holds a generated journey: the condition of the journey
\* block of main.py
JourneyShown ==
    Truthy(session.journey_route_data) /\ session.journey_narrative # NoNarrative

\* C26: when the session holds a generated journey and the last run of the
\* page got as far as the journey block with the store answering, the
\* marker drawn is that of the destination the stored route and narrative
\* were generated for.
C26_MarkerIsOfTheJourney ==
    JourneyShown /\ session.pc = "idle" /\ session.drawn # "PyMongoError"
    => session.drawn = session.narrative_request

\* C27: journey_narrative and journey_route_data are both None, or both
\* set by the attempt for one request, and then the path of the stored
\* route ends at the destination of that request.
C27_NarrativeAndRouteOfOneAttempt ==
    \/ /\ session.journey_narrative = NoNarrative
       /\ session.journey_route_data = JNull
       /\ session.narrative_request = "None"
       /\ session.route_request = "None"
    \/ /\ session.journey_narrative # NoNarrative
       /\ session.journey_route_data # JNull
       /\ session.narrative_request \in PoiIds
       /\ session.route_request = session.narrative_request
       /\ LeadsTo(session.journey_route_data, session.route_request)

\* C27 witness: the session holds the journey to the Ogige Market while a
\* later attempt for the Central Library has fetched its route and waits
\* for its narrative
C27_Witness ==
    /\ session.pc = "narrative"
    /\ session.request = "p1" /\ LeadsTo(session.route_data, "p1")
    /\ session.journey_narrative # NoNarrative
    /\ session.narrative_request = "p2"
    /\ LeadsTo(session.journey_route_data, "p2")

C30_ChatAlternates ==
    /\ session.messages[1] = Welcome
    /\ \A i \in 1..Len(session.messages) :
         session.messages[i].role = IF i % 2 = 1 THEN "assistant" ELSE "user"
    /\ session.pc = "idle" => Len(session.messages) % 2 = 1
    /\ session.pc = "oracle" => session.journey_narrative # NoNarrative
====
